---- MODULE Spec2Model ----
(***************************************************************************)
(* The five tools of the YFinance MCP server (src/server.py).              *)
(*                                                                         *)
(* Every tool is a stateless request/response function of its arguments    *)
(* and of what the data provider (yfinance, pytz, the clock) answers       *)
(* during the call.  One action per tool draws the arguments and the       *)
(* provider's answers from bounded sets, runs the whole handler and        *)
(* records how the invocation ended.                                       *)
(*                                                                         *)
(* Representation of Python values                                         *)
(*   text the code splits, slices or concatenates: a sequence of code      *)
(*     points (integers); a fixed literal of the source (the Korean        *)
(*     message texts) is one reserved negative code point;                 *)
(*   a dict: a function from its keys (TLA+ strings) to values;            *)
(*   a list: a sequence;                                                   *)
(*   a scalar: a tagged record, PyNone, Str(s), Num(n), NaN.               *)
(* Prices are counted in thirds of a cent, so that rounding to two         *)
(* decimals is a real conversion and never hits a tie; rounded prices are  *)
(* counted in cents.  Volumes are counted in halves, int() truncates them. *)
(***************************************************************************)
EXTENDS Integers, Sequences, FiniteSets, TLC

VARIABLES
  op,       \* the tool of the last invocation ("none" before the first)
  args,     \* its arguments
  prov,     \* what the provider answered to it: one record per lookup
  outcome,  \* "returned" or "raised"
  value,    \* the value returned, or the message of the raised ValueError
  calls     \* the provider calls it made, in order

vars == <<op, args, prov, outcome, value, calls>>

(* ------------------------------ bounds -------------------------------- *)

MaxQueryLen == 5      \* longest search query, in characters
MaxRows == 3          \* longest price series the provider returns
MaxSummaryLen == 502  \* longest business summary, in characters
MaxIrregular == 2     \* most metadata keys absent or null at once

(* ------------------------------ values -------------------------------- *)

PyNone == [t |-> "None"]
NaN == [t |-> "nan"]
Str(s) == [t |-> "str", s |-> s]
Num(n) == [t |-> "num", n |-> n]

\* Python truthiness of a scalar.
Truthy(v) ==
  CASE v.t = "None" -> FALSE
    [] v.t = "str" -> Len(v.s) > 0
    [] v.t = "num" -> v.n # 0
    [] v.t = "nan" -> TRUE

\* dict.get(key, default)
Get(d, key, default) == IF key \in DOMAIN d THEN d[key] ELSE default

\* Code points of the characters the model uses.
Chr(c) ==
  CASE c = " " -> 32 [] c = "." -> 46 [] c = "/" -> 47 [] c = "-" -> 45
    [] c = ":" -> 58 [] c = "0" -> 48 [] c = "A" -> 65 [] c = "B" -> 66
    [] c = "N" -> 78 [] c = "C" -> 67 [] c = "I" -> 73 [] c = "K" -> 75
    [] c = "S" -> 83 [] c = "T" -> 84 [] c = "U" -> 85
    [] c = "D" -> 68 [] c = "E" -> 69 [] c = "G" -> 71 [] c = "M" -> 77
    [] c = "J" -> 74

\* The "N/A" sentinel and the ellipsis marker.
NA == <<Chr("N"), Chr("/"), Chr("A")>>
Ellipsis == <<Chr("."), Chr("."), Chr(".")>>

\* sub occurs in s as a contiguous substring (Python: sub in s).
Contains(s, sub) ==
  \E i \in 0..(Len(s) - Len(sub)) :
    \A j \in 1..Len(sub) : s[i + j] = sub[j]

(* -------------------------- provider answers -------------------------- *)

Ok(v) == [ok |-> TRUE, v |-> v]
Throw(e) == [ok |-> FALSE, e |-> e]

\* One provider call as it appears in the call log.
Call(f, a, succeeded) == [fn |-> f, arg |-> a, ok |-> succeeded]

\* How an invocation ends.
Returned(v, log) == [outcome |-> "returned", value |-> v, calls |-> log]
Raised(msg, log) == [outcome |-> "raised", value |-> msg, calls |-> log]

(* --------------------------- message texts ---------------------------- *)

\* The fixed parts of the f-strings of the source, one reserved code each.
NoDataPre == <<-1>>      \* "심볼 '"
NoDataPost == <<-2>>     \* "'에 대한 주식 데이터가 없습니다."
FetchErr == <<-3>>       \* "주식 데이터를 가져오는 중 오류가 발생했습니다: "
NoInfoPost == <<-4>>     \* "'에 대한 정보를 찾을 수 없습니다."
InfoErr == <<-5>>        \* "주식 정보를 가져오는 중 오류가 발생했습니다: "
NoHitsPre == <<-6>>      \* "'"
NoHitsPost == <<-7>>     \* "'에 대한 검색 결과가 없습니다."
SearchErr == <<-8>>      \* "주식 검색 중 오류가 발생했습니다: "
DateErr == <<-9>>        \* "날짜 정보를 가져오는 중 오류가 발생했습니다: "

\* str(e) of the exceptions the libraries raise.
TimeoutText == <<-20>>       \* a network failure; names no symbol
NoSuchText(sym) == <<-21>> \o sym   \* a failure whose text names the symbol
NaNIntText == <<-22>>        \* int(nan): "cannot convert float NaN to integer"
NotSliceableText == <<-23>>  \* x[:500] on a number: "... is not subscriptable"
ClockErrText == <<-25>>      \* an exception of datetime.now(tz)
UnknownTzText(tz) == <<-24>> \o tz  \* pytz.UnknownTimeZoneError(tz)

\* NoDataMessage without the symbol.
NoDataMessage_generic(symbol) == NoDataPre \o NoDataPost

\* f"심볼 '{symbol}'에 대한 주식 데이터가 없습니다."
NoDataMessage(symbol) == NoDataPre \o symbol \o NoDataPost

ErrorDict(msg) == [k \in {"error"} |-> Str(msg)]
MessageDict(msg) == [k \in {"message"} |-> Str(msg)]

(* ----------------------- dates, rounding, int() ----------------------- *)

Digit(n) == Chr("0") + n
Pad2(n) == <<Digit((n \div 10) % 10), Digit(n % 10)>>
Pad4(n) == Pad2(n \div 100) \o Pad2(n % 100)

\* ts.strftime("%Y-%m-%d"): the time of day is dropped.
StrfYmd(ts) ==
  Pad4(ts.year) \o <<Chr("-")>> \o Pad2(ts.month) \o <<Chr("-")>> \o Pad2(ts.day)

\* round(x, 2): x in thirds of a cent, the result in cents.
Round2(x) == (x + 1) \div 3

\* int(v): v in halves, truncated toward zero; NaN cannot be converted.
IntOf(v) ==
  IF v.t = "nan" THEN Throw(NaNIntText)
  ELSE IF v.n >= 0 THEN Ok(v.n \div 2)
  ELSE Ok(-((-v.n) \div 2))

(* ------------------- the try body and its call log -------------------- *)

TryOk(v, log) == [ok |-> TRUE, v |-> v, calls |-> log]
TryThrow(e, log) == [ok |-> FALSE, e |-> e, calls |-> log]

(* --------------------------- get_stock_price -------------------------- *)

\* data.empty
Empty(data) == Len(data) = 0

Latest_first(data) == data[1]

\* data.iloc[-1]: the last row of the series.
Latest(data) == data[Len(data)]

\* data.index[-1]: the index (timestamp) of the last row.
LatestIndex(data) == data[Len(data)].ts

\* The dict literal of get_stock_price; int(latest["Volume"]) may throw.
PriceDict(symbol, data) ==
  LET latest == Latest(data)
      vol == IntOf(latest.Volume)
  IN IF ~vol.ok THEN vol
     ELSE Ok([symbol |-> Str(symbol),
              date |-> Str(StrfYmd(LatestIndex(data))),
              open |-> Num(Round2(latest.Open)),
              high |-> Num(Round2(latest.High)),
              low |-> Num(Round2(latest.Low)),
              close |-> Num(Round2(latest.Close)),
              volume |-> Num(vol.v)])

\* PriceTry asking for the history a second time when the first call throws.
PriceTry_retry(symbol, b) ==
  LET c1 == <<Call("Ticker", symbol, b.ticker.ok)>>
      c2 == Append(c1, Call("history", <<symbol, "1d">>, b.fetch.ok))
      c3 == Append(c2, Call("history", <<symbol, "1d">>, b.fetch.ok))
  IN IF ~b.ticker.ok THEN TryThrow(b.ticker.e, c1)
     ELSE IF ~b.fetch.ok THEN TryThrow(b.fetch.e, c3)
     ELSE IF Empty(b.fetch.v)
       THEN TryOk(ErrorDict(NoDataMessage(symbol)), c2)
     ELSE LET d == PriceDict(symbol, b.fetch.v)
          IN IF d.ok THEN TryOk(d.v, c2) ELSE TryThrow(d.e, c2)

\* The try block of get_stock_price.
PriceTry(symbol, b) ==
  LET c1 == <<Call("Ticker", symbol, b.ticker.ok)>>
      c2 == Append(c1, Call("history", <<symbol, "1d">>, b.fetch.ok))
  IN IF ~b.ticker.ok THEN TryThrow(b.ticker.e, c1)
     ELSE IF ~b.fetch.ok THEN TryThrow(b.fetch.e, c2)
     ELSE IF Empty(b.fetch.v)
       THEN TryOk(ErrorDict(NoDataMessage(symbol)), c2)
     ELSE LET d == PriceDict(symbol, b.fetch.v)
          IN IF d.ok THEN TryOk(d.v, c2) ELSE TryThrow(d.e, c2)

get_stock_price(symbol, b) ==
  LET r == PriceTry(symbol, b)
  IN IF r.ok THEN Returned(r.v, r.calls)
     ELSE Returned(ErrorDict(FetchErr \o r.e), r.calls)

(* ----------------------- get_stock_price_history ---------------------- *)

\* The dict appended for one row; int(row["Volume"]) may throw.
RowDict(row) ==
  LET vol == IntOf(row.Volume)
  IN IF ~vol.ok THEN vol
     ELSE Ok([date |-> Str(StrfYmd(row.ts)),
              open |-> Num(Round2(row.Open)),
              high |-> Num(Round2(row.High)),
              low |-> Num(Round2(row.Low)),
              close |-> Num(Round2(row.Close)),
              volume |-> Num(vol.v)])

\* HistoryLoop keeping the rows built before the one that fails.
RECURSIVE HistoryLoop_partial(_, _, _)
HistoryLoop_partial(data, i, result) ==
  IF i > Len(data) THEN Ok(result)
  ELSE LET d == RowDict(data[i])
       IN IF ~d.ok THEN Ok(Append(result, ErrorDict(FetchErr \o d.e)))
          ELSE HistoryLoop_partial(data, i + 1, Append(result, d.v))

\* The for loop over data.iterrows(), from row i on, result built so far.
RECURSIVE HistoryLoop(_, _, _)
HistoryLoop(data, i, result) ==
  IF i > Len(data) THEN Ok(result)
  ELSE LET d == RowDict(data[i])
       IN IF ~d.ok THEN d
          ELSE HistoryLoop(data, i + 1, Append(result, d.v))

\* The try block of get_stock_price_history.
HistoryTry(symbol, period, b) ==
  LET c1 == <<Call("Ticker", symbol, b.ticker.ok)>>
      c2 == Append(c1, Call("history", <<symbol, period>>, b.fetch.ok))
  IN IF ~b.ticker.ok THEN TryThrow(b.ticker.e, c1)
     ELSE IF ~b.fetch.ok THEN TryThrow(b.fetch.e, c2)
     ELSE IF Empty(b.fetch.v)
       THEN TryOk(<<ErrorDict(NoDataMessage(symbol))>>, c2)
     ELSE LET l == HistoryLoop(b.fetch.v, 1, <<>>)
          IN IF l.ok THEN TryOk(l.v, c2) ELSE TryThrow(l.e, c2)

\* get_stock_price_history letting the exception escape.
get_stock_price_history_reraise(symbol, period, b) ==
  LET r == HistoryTry(symbol, period, b)
  IN IF r.ok THEN Returned(r.v, r.calls)
     ELSE Raised(FetchErr \o r.e, r.calls)

get_stock_price_history(symbol, period, b) ==
  LET r == HistoryTry(symbol, period, b)
  IN IF r.ok THEN Returned(r.v, r.calls)
     ELSE Returned(<<ErrorDict(FetchErr \o r.e)>>, r.calls)


(* ---------------------------- get_stock_info -------------------------- *)

DescLimit == 500

Min(a, b) == IF a <= b THEN a ELSE b

\* s[:n] on a string.
Prefix(s, n) == SubSeq(s, 1, Min(n, Len(s)))

\* not info
NotInfo(info) == DOMAIN info = {}

\* info.get("dividendYield", "N/A") if info.get("dividendYield") is not None
\* else "N/A"
DividendYield(info) ==
  IF Get(info, "dividendYield", PyNone).t # "None"
  THEN Get(info, "dividendYield", Str(NA))
  ELSE Str(NA)

\* Description appending the ellipsis only when the summary was cut.
Description_cut(info) ==
  IF Truthy(Get(info, "longBusinessSummary", PyNone))
  THEN LET summary == Get(info, "longBusinessSummary", Str(NA))
       IN IF summary.t # "str" THEN Throw(NotSliceableText)
          ELSE IF Len(summary.s) > DescLimit
            THEN Ok(Str(Prefix(summary.s, DescLimit) \o Ellipsis))
          ELSE Ok(Str(summary.s))
  ELSE Ok(Str(NA))

\* info.get("longBusinessSummary", "N/A")[:500] + "..."
\* if info.get("longBusinessSummary") else "N/A"; slicing a number throws.
Description(info) ==
  IF Truthy(Get(info, "longBusinessSummary", PyNone))
  THEN LET summary == Get(info, "longBusinessSummary", Str(NA))
       IN IF summary.t # "str" THEN Throw(NotSliceableText)
          ELSE Ok(Str(Prefix(summary.s, DescLimit) \o Ellipsis))
  ELSE Ok(Str(NA))

\* The dict literal of get_stock_info.
InfoDict(symbol, info) ==
  LET desc == Description(info)
  IN IF ~desc.ok THEN desc
     ELSE Ok([symbol |-> Str(symbol),
              name |-> Get(info, "longName", Str(NA)),
              sector |-> Get(info, "sector", Str(NA)),
              industry |-> Get(info, "industry", Str(NA)),
              marketCap |-> Get(info, "marketCap", Str(NA)),
              previousClose |-> Get(info, "previousClose", Str(NA)),
              open |-> Get(info, "open", Str(NA)),
              dayLow |-> Get(info, "dayLow", Str(NA)),
              dayHigh |-> Get(info, "dayHigh", Str(NA)),
              trailingPE |-> Get(info, "trailingPE", Str(NA)),
              forwardPE |-> Get(info, "forwardPE", Str(NA)),
              dividendYield |-> DividendYield(info),
              description |-> desc.v])

\* The try block of get_stock_info.
InfoTry(symbol, b) ==
  LET c1 == <<Call("Ticker", symbol, b.ticker.ok)>>
      c2 == Append(c1, Call("info", symbol, b.fetch.ok))
  IN IF ~b.ticker.ok THEN TryThrow(b.ticker.e, c1)
     ELSE IF ~b.fetch.ok THEN TryThrow(b.fetch.e, c2)
     ELSE IF NotInfo(b.fetch.v)
       THEN TryOk(ErrorDict(NoDataPre \o symbol \o NoInfoPost), c2)
     ELSE LET d == InfoDict(symbol, b.fetch.v)
          IN IF d.ok THEN TryOk(d.v, c2) ELSE TryThrow(d.e, c2)

get_stock_info(symbol, b) ==
  LET r == InfoTry(symbol, b)
  IN IF r.ok THEN Returned(r.v, r.calls)
     ELSE Returned(ErrorDict(InfoErr \o r.e), r.calls)

(* ----------------------------- search_stocks -------------------------- *)

\* str.isspace() of one character: the code points Python's split() and
\* strip() treat as whitespace.
IsSpace(c) ==
  \/ c \in 9..13
  \/ c \in 28..32
  \/ c \in {133, 160, 5760, 8232, 8233, 8239, 8287, 12288}
  \/ c \in 8192..8202

\* query.split(): the maximal runs of non-whitespace characters, in order.
RECURSIVE SplitFrom(_, _, _, _)
SplitFrom(q, i, cur, acc) ==
  IF i > Len(q) THEN (IF Len(cur) = 0 THEN acc ELSE Append(acc, cur))
  ELSE IF IsSpace(q[i])
    THEN SplitFrom(q, i + 1, <<>>, IF Len(cur) = 0 THEN acc ELSE Append(acc, cur))
  ELSE SplitFrom(q, i + 1, Append(cur, q[i]), acc)

Split(q) == SplitFrom(q, 1, <<>>, <<>>)

\* s.strip()
RECURSIVE Strip(_)
Strip(s) ==
  IF Len(s) = 0 THEN s
  ELSE IF IsSpace(s[1]) THEN Strip(Tail(s))
  ELSE IF IsSpace(s[Len(s)]) THEN Strip(SubSeq(s, 1, Len(s) - 1))
  ELSE s

\* The dict appended for a hit.
HitDict(symbol, info) ==
  [symbol |-> Str(symbol),
   name |-> Get(info, "longName", Str(<<>>)),
   exchange |-> Get(info, "exchange", Str(<<>>)),
   currency |-> Get(info, "currency", Str(<<>>))]

\* The inner try block for one token: the hits it adds (none or one).
TokenTry(symbol, b) ==
  LET c1 == <<Call("Ticker", symbol, b.ticker.ok)>>
      c2 == Append(c1, Call("info", symbol, b.fetch.ok))
  IN IF ~b.ticker.ok THEN TryThrow(b.ticker.e, c1)
     ELSE IF ~b.fetch.ok THEN TryThrow(b.fetch.e, c2)
     ELSE IF ~NotInfo(b.fetch.v) /\ Truthy(Get(b.fetch.v, "longName", PyNone))
       THEN TryOk(<<HitDict(symbol, b.fetch.v)>>, c2)
     ELSE TryOk(<<>>, c2)

\* SearchLoop giving up at the first lookup that throws.
RECURSIVE SearchLoop_abort(_, _, _, _, _)
SearchLoop_abort(tokens, i, script, result, log) ==
  IF i > Len(tokens) THEN TryOk(result, log)
  ELSE LET symbol == Strip(tokens[i])
       IN IF Len(symbol) = 0
          THEN SearchLoop_abort(tokens, i + 1, script, result, log)
          ELSE LET t == TokenTry(symbol, script[i])
               IN IF t.ok
                  THEN SearchLoop_abort(tokens, i + 1, script, result \o t.v,
                                        log \o t.calls)
                  ELSE TryOk(result, log \o t.calls)

\* The for loop over query.split(), from token i on; script[i] is what the
\* provider answers to the lookup of token i.  A lookup that throws is
\* skipped (except Exception: continue).
RECURSIVE SearchLoop(_, _, _, _, _)
SearchLoop(tokens, i, script, result, log) ==
  IF i > Len(tokens) THEN TryOk(result, log)
  ELSE LET symbol == Strip(tokens[i])
       IN IF Len(symbol) = 0
          THEN SearchLoop(tokens, i + 1, script, result, log)
          ELSE LET t == TokenTry(symbol, script[i])
               IN IF t.ok
                  THEN SearchLoop(tokens, i + 1, script, result \o t.v, log \o t.calls)
                  ELSE SearchLoop(tokens, i + 1, script, result, log \o t.calls)

SearchReturn_raw(query, result) == result

\* return result if result else [{"message": ...}]
SearchReturn(query, result) ==
  IF Len(result) > 0 THEN result
  ELSE <<MessageDict(NoHitsPre \o query \o NoHitsPost)>>

\* query is a str, so neither split() nor the loop throws and the outer
\* except branch returns nothing.
search_stocks(query, script) ==
  LET r == SearchLoop(Split(query), 1, script, <<>>, <<>>)
  IN IF r.ok THEN Returned(SearchReturn(query, r.v), r.calls)
     ELSE Returned(<<ErrorDict(SearchErr \o r.e)>>, r.calls)


(* --------------------------- get_current_date ------------------------- *)

\* pytz.timezone and datetime.now are calls into the environment, as the
\* yfinance calls are: the invocation is given what each of them answers, a
\* value or an exception.  What pytz.timezone returns is a zone as pytz
\* holds it: the instants (seconds since the epoch, 1970 to 2038) at which
\* its UTC offset changes, and the offsets and abbreviations it alternates
\* between, the one in force at the epoch first.  The zones below are the
\* ones the model draws its answers from.
\* Asia/Seoul
ZoneSeoul ==
  [variants |-> <<[offset |-> 32400, abbr |-> <<Chr("K"), Chr("S"), Chr("T")>>],
                 [offset |-> 36000, abbr |-> <<Chr("K"), Chr("D"), Chr("T")>>]>>,
   times |->
    <<
      547578000, 560883600, 579027600, 592333200
    >>]

\* UTC
ZoneUTC ==
  [variants |-> <<[offset |-> 0, abbr |-> <<Chr("U"), Chr("T"), Chr("C")>>]>>,
   times |-> <<>>]

\* Asia/Kolkata
ZoneKolkata ==
  [variants |-> <<[offset |-> 19800, abbr |-> <<Chr("I"), Chr("S"), Chr("T")>>]>>,
   times |-> <<>>]

\* America/New_York
ZoneNewYork ==
  [variants |-> <<[offset |-> -18000, abbr |-> <<Chr("E"), Chr("S"), Chr("T")>>],
                 [offset |-> -14400, abbr |-> <<Chr("E"), Chr("D"), Chr("T")>>]>>,
   times |->
    <<
      9961200, 25682400, 41410800, 57736800, 73465200, 89186400, 104914800,
      120636000, 126687600, 152085600, 162370800, 183535200, 199263600,
      215589600, 230713200, 247039200, 262767600, 278488800, 294217200,
      309938400, 325666800, 341388000, 357116400, 372837600, 388566000,
      404892000, 420015600, 436341600, 452070000, 467791200, 483519600,
      499240800, 514969200, 530690400, 544604400, 562140000, 576054000,
      594194400, 607503600, 625644000, 638953200, 657093600, 671007600,
      688543200, 702457200, 719992800, 733906800, 752047200, 765356400,
      783496800, 796806000, 814946400, 828860400, 846396000, 860310000,
      877845600, 891759600, 909295200, 923209200, 941349600, 954658800,
      972799200, 986108400, 1004248800, 1018162800, 1035698400, 1049612400,
      1067148000, 1081062000, 1099202400, 1112511600, 1130652000,
      1143961200, 1162101600, 1173596400, 1194156000, 1205046000,
      1225605600, 1236495600, 1257055200, 1268550000, 1289109600,
      1299999600, 1320559200, 1331449200, 1352008800, 1362898800,
      1383458400, 1394348400, 1414908000, 1425798000, 1446357600,
      1457852400, 1478412000, 1489302000, 1509861600, 1520751600,
      1541311200, 1552201200, 1572760800, 1583650800, 1604210400,
      1615705200, 1636264800, 1647154800, 1667714400, 1678604400,
      1699164000, 1710054000, 1730613600, 1741503600, 1762063200,
      1772953200, 1793512800, 1805007600, 1825567200, 1836457200,
      1857016800, 1867906800, 1888466400, 1899356400, 1919916000,
      1930806000, 1951365600, 1962860400, 1983420000, 1994310000,
      2014869600, 2025759600, 2046319200, 2057209200, 2077768800,
      2088658800, 2109218400, 2120108400, 2140668000
    >>]

\* Europe/London
ZoneLondon ==
  [variants |-> <<[offset |-> 3600, abbr |-> <<Chr("B"), Chr("S"), Chr("T")>>],
                 [offset |-> 0, abbr |-> <<Chr("G"), Chr("M"), Chr("T")>>]>>,
   times |->
    <<
      57722400, 69818400, 89172000, 101268000, 120621600, 132717600,
      152071200, 164167200, 183520800, 196221600, 214970400, 227671200,
      246420000, 259120800, 278474400, 290570400, 309924000, 322020000,
      341373600, 354675600, 372819600, 386125200, 404269200, 417574800,
      435718800, 449024400, 467773200, 481078800, 499222800, 512528400,
      530672400, 543978000, 562122000, 575427600, 593571600, 606877200,
      625626000, 638326800, 657075600, 670381200, 688525200, 701830800,
      719974800, 733280400, 751424400, 764730000, 782874000, 796179600,
      814323600, 828234000, 846378000, 859683600, 877827600, 891133200,
      909277200, 922582800, 941331600, 954032400, 972781200, 985482000,
      1004230800, 1017536400, 1035680400, 1048986000, 1067130000,
      1080435600, 1099184400, 1111885200, 1130634000, 1143334800,
      1162083600, 1174784400, 1193533200, 1206838800, 1224982800,
      1238288400, 1256432400, 1269738000, 1288486800, 1301187600,
      1319936400, 1332637200, 1351386000, 1364691600, 1382835600,
      1396141200, 1414285200, 1427590800, 1445734800, 1459040400,
      1477789200, 1490490000, 1509238800, 1521939600, 1540688400,
      1553994000, 1572138000, 1585443600, 1603587600, 1616893200,
      1635642000, 1648342800, 1667091600, 1679792400, 1698541200,
      1711846800, 1729990800, 1743296400, 1761440400, 1774746000,
      1792890000, 1806195600, 1824944400, 1837645200, 1856394000,
      1869094800, 1887843600, 1901149200, 1919293200, 1932598800,
      1950742800, 1964048400, 1982797200, 1995498000, 2014246800,
      2026947600, 2045696400, 2058397200, 2077146000, 2090451600,
      2108595600, 2121901200, 2140045200
    >>]

\* Asia/Tokyo
ZoneTokyo ==
  [variants |-> <<[offset |-> 32400, abbr |-> <<Chr("J"), Chr("S"), Chr("T")>>]>>,
   times |-> <<>>]

\* Europe/Paris
ZoneParis ==
  [variants |-> <<[offset |-> 3600, abbr |-> <<Chr("C"), Chr("E"), Chr("T")>>],
                 [offset |-> 7200, abbr |-> <<Chr("C"), Chr("E"), Chr("S"), Chr("T")>>]>>,
   times |->
    <<
      196819200, 212540400, 228877200, 243997200, 260326800, 276051600,
      291776400, 307501200, 323830800, 338950800, 354675600, 370400400,
      386125200, 401850000, 417574800, 433299600, 449024400, 465354000,
      481078800, 496803600, 512528400, 528253200, 543978000, 559702800,
      575427600, 591152400, 606877200, 622602000, 638326800, 654656400,
      670381200, 686106000, 701830800, 717555600, 733280400, 749005200,
      764730000, 780454800, 796179600, 811904400, 828234000, 846378000,
      859683600, 877827600, 891133200, 909277200, 922582800, 941331600,
      954032400, 972781200, 985482000, 1004230800, 1017536400, 1035680400,
      1048986000, 1067130000, 1080435600, 1099184400, 1111885200, 1130634000,
      1143334800, 1162083600, 1174784400, 1193533200, 1206838800, 1224982800,
      1238288400, 1256432400, 1269738000, 1288486800, 1301187600, 1319936400,
      1332637200, 1351386000, 1364691600, 1382835600, 1396141200, 1414285200,
      1427590800, 1445734800, 1459040400, 1477789200, 1490490000, 1509238800,
      1521939600, 1540688400, 1553994000, 1572138000, 1585443600, 1603587600,
      1616893200, 1635642000, 1648342800, 1667091600, 1679792400, 1698541200,
      1711846800, 1729990800, 1743296400, 1761440400, 1774746000, 1792890000,
      1806195600, 1824944400, 1837645200, 1856394000, 1869094800, 1887843600,
      1901149200, 1919293200, 1932598800, 1950742800, 1964048400, 1982797200,
      1995498000, 2014246800, 2026947600, 2045696400, 2058397200, 2077146000,
      2090451600, 2108595600, 2121901200, 2140045200
    >>]

\* tz.utcoffset() and tz.tzname() at an instant: the variant in force after
\* the transitions that have passed.
ZoneAt(tz, sec) ==
  LET passed == Cardinality({i \in 1..Len(tz.times) : tz.times[i] <= sec})
  IN tz.variants[(passed % 2) + 1]

\* The civil date of a day number counted from 1970-01-01.
CivilFromDays(days) ==
  LET z == days + 719468
      era == z \div 146097
      doe == z - era * 146097
      yoe == (doe - doe \div 1460 + doe \div 36524 - doe \div 146096) \div 365
      doy == doe - (365 * yoe + yoe \div 4 - yoe \div 100)
      mp == (5 * doy + 2) \div 153
      d == doy - (153 * mp + 2) \div 5 + 1
      m == IF mp < 10 THEN mp + 3 ELSE mp - 9
  IN [year |-> yoe + era * 400 + (IF m <= 2 THEN 1 ELSE 0), month |-> m, day |-> d]

\* datetime.now(tz): the clock reads clock.sec seconds and clock.usec
\* microseconds since the epoch.
Now(clock, tz) ==
  LET zone == ZoneAt(tz, clock.sec)
      local == clock.sec + zone.offset
      days == local \div 86400
      secs == local % 86400
      civil == CivilFromDays(days)
  IN [year |-> civil.year, month |-> civil.month, day |-> civil.day,
      hour |-> secs \div 3600, minute |-> (secs % 3600) \div 60,
      second |-> secs % 60, weekday |-> (days + 3) % 7,
      abbr |-> zone.abbr, sec |-> clock.sec, usec |-> clock.usec]

\* now.strftime("%A")
DayNames ==
  <<"Monday", "Tuesday", "Wednesday", "Thursday", "Friday", "Saturday", "Sunday">>

StrfA(now) == DayNames[now.weekday + 1]

\* The Korean weekday names are written in Latin letters (월요일 -> woryoil).
day_map_kr ==
  [d \in {DayNames[i] : i \in 1..7} |->
     CASE d = "Monday" -> "woryoil" [] d = "Tuesday" -> "hwayoil"
       [] d = "Wednesday" -> "suyoil" [] d = "Thursday" -> "mogyoil"
       [] d = "Friday" -> "geumyoil" [] d = "Saturday" -> "toyoil"
       [] d = "Sunday" -> "iryoil"]

\* now.strftime("%H:%M:%S")
StrfHMS(now) ==
  Pad2(now.hour) \o <<Chr(":")>> \o Pad2(now.minute) \o <<Chr(":")>> \o Pad2(now.second)

\* now.strftime("%Y-%m-%d %H:%M:%S %Z")
StrfFull(now) ==
  StrfYmd(now) \o <<Chr(" ")>> \o StrfHMS(now) \o <<Chr(" ")>> \o now.abbr

\* int(now.timestamp())
UnixTimestamp(now) == now.sec

\* The dict literal of get_current_date.
DateDict(timezone, now) ==
  LET day_en == StrfA(now)
      day_kr == Get(day_map_kr, day_en, day_en)
  IN [full_datetime |-> Str(StrfFull(now)),
      date_iso |-> Str(StrfYmd(now)),
      time_iso |-> Str(StrfHMS(now)),
      date_ymd |-> Str(StrfYmd(now)),
      day_of_week |-> Str(day_en),
      day_of_week_kr |-> Str(day_kr),
      timezone |-> Str(timezone),
      unix_timestamp |-> Num(UnixTimestamp(now)),
      year |-> Num(now.year),
      month |-> Num(now.month),
      day |-> Num(now.day),
      hour |-> Num(now.hour),
      minute |-> Num(now.minute),
      second |-> Num(now.second)]

\* The try block of get_current_date; b.timezone is what
\* pytz.timezone(timezone) answers and b.now what the clock read by
\* datetime.now(tz) answers.
DateTry(timezone, b) ==
  LET c1 == <<Call("timezone", timezone, b.timezone.ok)>>
      c2 == Append(c1, Call("now", timezone, b.now.ok))
  IN IF ~b.timezone.ok THEN TryThrow(b.timezone.e, c1)
     ELSE IF ~b.now.ok THEN TryThrow(b.now.e, c2)
     ELSE TryOk(DateDict(timezone, Now(b.now.v, b.timezone.v)), c2)

\* get_current_date answering with an error payload like the other tools.
get_current_date_payload(timezone, b) ==
  LET r == DateTry(timezone, b)
  IN IF r.ok THEN Returned(r.v, r.calls)
     ELSE Returned(ErrorDict(DateErr \o r.e), r.calls)

\* except Exception as e: raise ValueError(...)
get_current_date(timezone, b) ==
  LET r == DateTry(timezone, b)
  IN IF r.ok THEN Returned(r.v, r.calls)
     ELSE Raised(DateErr \o r.e, r.calls)

(* ------------------------ inputs of the model ------------------------- *)

Symbols == {<<Chr("A")>>, <<Chr("A"), Chr("B")>>}
Periods == {"1mo", "bogus"}
\* Zone names as the caller passes them.
NameSeoul == <<65, 115, 105, 97, 47, 83, 101, 111, 117, 108>>  \* "Asia/Seoul"
NameSeoulLower == <<97, 115, 105, 97, 47, 115, 101, 111, 117, 108>>  \* "asia/seoul"
NameKolkata == <<65, 115, 105, 97, 47, 75, 111, 108, 107, 97, 116, 97>>  \* "Asia/Kolkata"
NameNewYork == <<65, 109, 101, 114, 105, 99, 97, 47, 78, 101, 119, 95, 89, 111, 114, 107>>  \* "America/New_York"
NameLondon == <<69, 117, 114, 111, 112, 101, 47, 76, 111, 110, 100, 111, 110>>  \* "Europe/London"
NameTokyo == <<65, 115, 105, 97, 47, 84, 111, 107, 121, 111>>  \* "Asia/Tokyo"
NameParis == <<69, 117, 114, 111, 112, 101, 47, 80, 97, 114, 105, 115>>  \* "Europe/Paris"
NameUTC == <<85, 84, 67>>  \* "UTC"
NameUTCLower == <<117, 116, 99>>  \* "utc"
NamePhobos == <<77, 97, 114, 115, 47, 80, 104, 111, 98, 111, 115>>  \* "Mars/Phobos"
NameHangul == <<49436>> \o NameSeoul  \* a name that is not ASCII

\* Lookups as pytz answers them: a name with the zone it names (pytz finds
\* a name whatever its case), and a name of no zone with the exception.
TzLookups ==
  {[name |-> NameSeoul, answer |-> Ok(ZoneSeoul)],
   [name |-> NameSeoulLower, answer |-> Ok(ZoneSeoul)],
   [name |-> NameKolkata, answer |-> Ok(ZoneKolkata)],
   [name |-> NameNewYork, answer |-> Ok(ZoneNewYork)],
   [name |-> NameLondon, answer |-> Ok(ZoneLondon)],
   [name |-> NameTokyo, answer |-> Ok(ZoneTokyo)],
   [name |-> NameParis, answer |-> Ok(ZoneParis)],
   [name |-> NameUTC, answer |-> Ok(ZoneUTC)],
   [name |-> NameUTCLower, answer |-> Ok(ZoneUTC)],
   [name |-> NamePhobos, answer |-> Throw(UnknownTzText(NamePhobos))],
   [name |-> NameHangul, answer |-> Throw(UnknownTzText(NameHangul))]}

Clocks ==
  {[sec |-> s, usec |-> u] :
     s \in {0, 86399, 560883599, 951827696, 1078012800, 1704067199,
             1751328000, 1761818400}, u \in {0, 999999}}

\* What the two environment calls of get_current_date answer: the lookup,
\* then the clock when the lookup did not throw.
DateAnswers(look) ==
  IF ~look.answer.ok THEN {[timezone |-> look.answer, now |-> Throw(<<>>)]}
  ELSE {[timezone |-> look.answer, now |-> Ok(c)] : c \in Clocks}
       \cup {[timezone |-> look.answer, now |-> Throw(ClockErrText)]}

ExcTexts(sym) == {TimeoutText, NoSuchText(sym)}

\* Row k of the provider's table; the prices of different rows and columns
\* differ, and so do their roundings.
Row(k, volume) ==
  [ts |-> [year |-> 2024, month |-> k, day |-> 26 + k, hour |-> 9],
   Open |-> 3000 * k, High |-> 3000 * k + 302, Low |-> 3000 * k - 299,
   Close |-> 3000 * k + 151, Volume |-> volume]

RowPool ==
  {Row(1, Num(21)), Row(2, Num(40)), Row(3, Num(63)), Row(4, NaN), Row(5, Num(-5))}

SeriesUpTo(n) == UNION {[1..k -> RowPool] : k \in 0..n}

\* What the provider answers to one lookup: the Ticker constructor, then
\* the fetch (history or info) when the constructor did not throw.
NotAsked == Throw(<<>>)

Answers(sym, data) ==
  {[ticker |-> Throw(e), fetch |-> NotAsked] : e \in ExcTexts(sym)}
  \cup {[ticker |-> Ok(<<>>), fetch |-> Throw(e)] : e \in ExcTexts(sym)}
  \cup {[ticker |-> Ok(<<>>), fetch |-> Ok(d)] : d \in data}


\* The metadata keys the tools read.
ProfileKeys ==
  {"longName", "sector", "industry", "marketCap", "previousClose", "open",
   "dayLow", "dayHigh", "trailingPE", "forwardPE", "dividendYield",
   "longBusinessSummary"}

HitKeys == {"longName", "exchange", "currency"}

\* A text of n distinct characters.
Text(n) == [i \in 1..n |-> 1000 + i]

\* The value the provider supplies for a key when it supplies one.
FullValue(k) ==
  CASE k = "longName" -> Str(<<Chr("A"), Chr(" "), Chr("I")>>)
    [] k = "sector" -> Str(<<Chr("T")>>)
    [] k = "industry" -> Str(<<Chr("C")>>)
    [] k = "exchange" -> Str(<<Chr("N"), Chr("S")>>)
    [] k = "currency" -> Str(<<Chr("U"), Chr("S")>>)
    [] k = "marketCap" -> Num(3000000)
    [] k = "previousClose" -> Num(18950)
    [] k = "open" -> Num(19001)
    [] k = "dayLow" -> Num(18800)
    [] k = "dayHigh" -> Num(19210)
    [] k = "trailingPE" -> Num(29)
    [] k = "forwardPE" -> Num(27)
    [] k = "dividendYield" -> Num(0)
    [] k = "longBusinessSummary" -> Str(Text(3))

\* The metadata with the keys of absent left out, those of nulls set to
\* None and the given business summary.
InfoWith(absent, nulls, summary) ==
  [k \in (ProfileKeys \cup HitKeys) \ absent |->
     IF k \in nulls THEN PyNone
     ELSE IF k = "longBusinessSummary" THEN summary
     ELSE FullValue(k)]

EmptyInfo == [k \in {} |-> PyNone]

\* The pairs <<u, n>>: at most MaxIrregular keys u not supplied, those of n
\* present with the value None and the others absent.
Irregular(keys) ==
  UNION {{<<u, n>> : n \in SUBSET u} :
           u \in {w \in SUBSET keys : Cardinality(w) <= MaxIrregular}}

InfoInputs ==
  {EmptyInfo}
  \cup {InfoWith({}, {}, Str(Text(n))) : n \in 0..MaxSummaryLen}
  \cup {InfoWith(p[1] \ p[2], p[2], s) :
          p \in Irregular(ProfileKeys), s \in {Str(Text(3)), Num(7)}}

SearchInfos ==
  {EmptyInfo, InfoWith({}, {}, Str(Text(3))),
   InfoWith({"longName"}, {}, Str(Text(3))),
   InfoWith({}, {"longName"}, Str(Text(3))),
   InfoWith({"exchange", "currency"}, {}, Str(Text(3))),
   [k \in {"longName"} |-> Str(<<>>)]}

SearchAnswers ==
  {[ticker |-> Throw(TimeoutText), fetch |-> NotAsked],
   [ticker |-> Ok(<<>>), fetch |-> Throw(TimeoutText)]}
  \cup {[ticker |-> Ok(<<>>), fetch |-> Ok(d)] : d \in SearchInfos}

\* A space, an ideographic space (U+3000) and two letters.
QueryChars == {Chr(" "), 12288, Chr("A"), Chr("B")}
Queries == UNION {[1..k -> QueryChars] : k \in 0..MaxQueryLen}

(* -------------------------- the state machine ------------------------- *)

Init ==
  /\ op = "none"
  /\ args = <<>>
  /\ prov = <<>>
  /\ outcome = "none"
  /\ value = <<>>
  /\ calls = <<>>

\* One invocation of tool name with arguments a, the provider answering p,
\* ending as r.
Invocation(name, a, p, r) ==
  /\ op' = name
  /\ args' = a
  /\ prov' = p
  /\ outcome' = r.outcome
  /\ value' = r.value
  /\ calls' = r.calls

Invoke_get_current_date ==
  /\ op = "none"
  /\ \E look \in TzLookups :
    \E b \in DateAnswers(look) :
      Invocation("get_current_date", [timezone |-> look.name], <<b>>,
                 get_current_date(look.name, b))

Invoke_get_stock_price ==
  /\ op = "none"
  /\ \E symbol \in Symbols :
    \E b \in Answers(symbol, SeriesUpTo(MaxRows)) :
      Invocation("get_stock_price", [symbol |-> symbol], <<b>>,
                 get_stock_price(symbol, b))

Invoke_get_stock_price_history ==
  /\ op = "none"
  /\ \E symbol \in Symbols, period \in Periods :
    \E b \in Answers(symbol, SeriesUpTo(MaxRows)) :
      Invocation("get_stock_price_history",
                 [symbol |-> symbol, period |-> period], <<b>>,
                 get_stock_price_history(symbol, period, b))

Invoke_get_stock_info ==
  /\ op = "none"
  /\ \E symbol \in Symbols :
    \E b \in Answers(symbol, InfoInputs) :
      Invocation("get_stock_info", [symbol |-> symbol], <<b>>,
                 get_stock_info(symbol, b))

Invoke_search_stocks ==
  /\ op = "none"
  /\ \E query \in Queries :
    \E script \in [1..Len(Split(query)) -> SearchAnswers] :
      Invocation("search_stocks", [query |-> query], script,
                 search_stocks(query, script))

\* The framework hands the result to the caller; nothing of the invocation
\* is kept (the tools are stateless).
Respond ==
  /\ op # "none"
  /\ op' = "none"
  /\ args' = <<>>
  /\ prov' = <<>>
  /\ outcome' = "none"
  /\ value' = <<>>
  /\ calls' = <<>>

Next ==
  \/ Respond
  \/ Invoke_get_current_date
  \/ Invoke_get_stock_price
  \/ Invoke_get_stock_price_history
  \/ Invoke_get_stock_info
  \/ Invoke_search_stocks

Spec == Init /\ [][Next]_vars


(* ------------------------ vocabulary of the claims -------------------- *)

PayloadTools ==
  {"get_stock_price", "get_stock_price_history", "get_stock_info", "search_stocks"}

PriceKeys == {"symbol", "date", "open", "high", "low", "close", "volume"}
RowKeys == {"date", "open", "high", "low", "close", "volume"}

ProfileResultKeys ==
  {"symbol", "name", "sector", "industry", "marketCap", "previousClose", "open",
   "dayLow", "dayHigh", "trailingPE", "forwardPE", "dividendYield", "description"}

DateKeys ==
  {"full_datetime", "date_iso", "time_iso", "date_ymd", "day_of_week",
   "day_of_week_kr", "timezone", "unix_timestamp", "year", "month", "day",
   "hour", "minute", "second"}

\* The metadata key behind each key of the get_stock_info result.
ProfileSource(k) ==
  CASE k = "name" -> "longName"
    [] k = "description" -> "longBusinessSummary"
    [] OTHER -> k

\* v is the integer Num that n halves truncate to, toward zero.
IsTruncation(v, n) ==
  /\ v.t = "num"
  /\ n >= 0 => (2 * v.n <= n /\ n < 2 * v.n + 2)
  /\ n < 0 => (2 * v.n >= n /\ n > 2 * v.n - 2)

OnlyError(d) == DOMAIN d = {"error"}
OnlyMessage(d) == DOMAIN d = {"message"}

\* The single lookup of the price, history and info tools.
Threw(b) == ~b.ticker.ok \/ ~b.fetch.ok
GotData(b) == b.ticker.ok /\ b.fetch.ok

\* A search lookup that yields a hit: nothing thrown, metadata not empty,
\* a name in it.
IsHit(b) ==
  /\ GotData(b)
  /\ "longName" \in DOMAIN b.fetch.v
  /\ Truthy(b.fetch.v["longName"])

\* The positions of the hits among the lookups of a search, in order.
RECURSIVE HitPositions(_, _)
HitPositions(script, i) ==
  IF i > Len(script) THEN <<>>
  ELSE (IF IsHit(script[i]) THEN <<i>> ELSE <<>>) \o HitPositions(script, i + 1)

IsTickerCall(c) == c.fn = "Ticker"

(* ------------------------------- claims -------------------------------- *)

\* C1: get_stock_price, get_stock_price_history, get_stock_info and
\* search_stocks always end by returning a value, whatever the provider does
\* (data, no data, an exception at either provider call, a malformed field);
\* a failed lookup ends in a payload with an `error` field, a search without
\* a hit in a payload with a `message` field.
C1_PayloadToolsNeverRaise ==
  op \in PayloadTools =>
    /\ outcome = "returned"
    /\ (op = "get_stock_price" /\
          (Threw(prov[1]) \/ Empty(prov[1].fetch.v)
             \/ prov[1].fetch.v[Len(prov[1].fetch.v)].Volume.t = "nan"))
         => "error" \in DOMAIN value
    /\ (op = "get_stock_price_history" /\
          (Threw(prov[1]) \/ Empty(prov[1].fetch.v)
             \/ \E i \in 1..Len(prov[1].fetch.v) : prov[1].fetch.v[i].Volume.t = "nan"))
         => (Len(value) = 1 /\ "error" \in DOMAIN value[1])
    /\ (op = "get_stock_info" /\
          (Threw(prov[1]) \/ NotInfo(prov[1].fetch.v)
             \/ Get(prov[1].fetch.v, "longBusinessSummary", PyNone).t = "num"))
         => "error" \in DOMAIN value
    /\ (op = "search_stocks" /\ \A i \in 1..Len(prov) : ~IsHit(prov[i]))
         => (Len(value) = 1 /\ "message" \in DOMAIN value[1])

\* A history whose second row has a volume that int() rejects ended in a
\* returned error payload.
C1_Witness ==
  /\ op = "get_stock_price_history"
  /\ GotData(prov[1])
  /\ Len(prov[1].fetch.v) >= 2
  /\ prov[1].fetch.v[1].Volume.t = "num"
  /\ prov[1].fetch.v[2].Volume.t = "nan"
  /\ outcome = "returned"
  /\ OnlyError(value[1])

\* C2: get_current_date raises exactly when pytz does not recognize the
\* timezone or a later step (reading the clock in the zone) fails; the
\* raised message is the fixed text followed by the failure's own; when it
\* returns, the result is the full DateTimeInfo dict, without an `error`
\* key, and names the timezone as passed.
C2_DateRaisesNeverPayload ==
  op = "get_current_date" =>
    LET b == prov[1]
        failed == ~b.timezone.ok \/ ~b.now.ok
    IN /\ outcome \in {"returned", "raised"}
       /\ outcome = "raised" <=> failed
       /\ outcome = "raised" =>
            value = DateErr \o (IF ~b.timezone.ok THEN b.timezone.e ELSE b.now.e)
       /\ outcome = "returned" =>
            /\ DOMAIN value = DateKeys
            /\ "error" \notin DOMAIN value
            /\ value.timezone = Str(args.timezone)

\* A name pytz does not recognize was passed and the invocation raised.
C2_Witness ==
  /\ op = "get_current_date"
  /\ ~prov[1].timezone.ok
  /\ Len(calls) = 1
  /\ outcome = "raised"

\* C3: the hits search_stocks returns are exactly the tokens whose lookup
\* did not throw and gave non-empty metadata with a name, one per token
\* occurrence, in the order of the query; a token whose lookup throws is
\* skipped, every token is looked up, and no `error` is returned.
C3_SearchPartialFailure ==
  op = "search_stocks" =>
    LET tokens == Split(args.query)
        hits == HitPositions(prov, 1)
    IN /\ Len(prov) = Len(tokens)
       /\ Len(SelectSeq(calls, IsTickerCall)) = Len(tokens)
       /\ \A k \in 1..Len(tokens) :
            SelectSeq(calls, IsTickerCall)[k].arg = tokens[k]
       /\ \A k \in 1..Len(value) : "error" \notin DOMAIN value[k]
       /\ Len(hits) > 0 =>
            /\ Len(value) = Len(hits)
            /\ \A k \in 1..Len(hits) :
                 /\ DOMAIN value[k] = {"symbol", "name", "exchange", "currency"}
                 /\ value[k].symbol = Str(tokens[hits[k]])
                 /\ value[k].name = prov[hits[k]].fetch.v["longName"]
       /\ Len(hits) = 0 => (Len(value) = 1 /\ OnlyMessage(value[1]))

\* Three tokens, the lookup of the first throws, the two after it are hits
\* and both are returned.
C3_Witness ==
  /\ op = "search_stocks"
  /\ Len(prov) = 3
  /\ prov[1].ticker.ok /\ ~prov[1].fetch.ok
  /\ IsHit(prov[2]) /\ IsHit(prov[3])
  /\ Len(value) = 2
  /\ value[1].symbol # value[2].symbol

\* C4: search_stocks never returns an empty sequence: without a hit (also
\* for an empty or all-whitespace query, for which no provider call is made)
\* the result is one element with only a `message` key; with hits it is the
\* hits, none of them a `message` element.
C4_SearchNeverEmpty ==
  op = "search_stocks" =>
    /\ Len(value) >= 1
    /\ (\A i \in 1..Len(args.query) : IsSpace(args.query[i])) =>
         (Len(calls) = 0 /\ Len(value) = 1 /\ OnlyMessage(value[1]))
    /\ Len(HitPositions(prov, 1)) = 0 =>
         (Len(value) = 1 /\ OnlyMessage(value[1]))
    /\ Len(HitPositions(prov, 1)) > 0 =>
         \A k \in 1..Len(value) :
           "message" \notin DOMAIN value[k] /\ "symbol" \in DOMAIN value[k]

\* A whitespace-only query ended in the one-element message.
C4_Witness ==
  /\ op = "search_stocks"
  /\ Len(args.query) >= 2
  /\ \A i \in 1..Len(args.query) : IsSpace(args.query[i])
  /\ Len(calls) = 0
  /\ Len(value) = 1
  /\ OnlyMessage(value[1])

\* C5: in every successful get_stock_info result all thirteen keys are
\* present and none is null; every field whose metadata key is absent or
\* None carries "N/A".
C5_ProfileNeverNull ==
  (op = "get_stock_info" /\ "error" \notin DOMAIN value) =>
    /\ DOMAIN value = ProfileResultKeys
    /\ \A k \in ProfileResultKeys : value[k].t # "None"
    /\ \A k \in ProfileResultKeys \ {"symbol"} :
         Get(prov[1].fetch.v, ProfileSource(k), PyNone).t = "None"
           => (value[k].t = "str" /\ value[k].s = NA)

\* C6: with non-empty metadata, a summary that is a non-empty text gives the
\* description its first min(500, length) characters followed by "...",
\* whatever its length (so at most 503 characters); an absent, None or
\* empty summary gives "N/A" without an ellipsis.
C6_DescriptionEllipsis ==
  (op = "get_stock_info" /\ GotData(prov[1]) /\ ~NotInfo(prov[1].fetch.v)) =>
    LET summary == Get(prov[1].fetch.v, "longBusinessSummary", PyNone)
        n == IF Len(summary.s) < DescLimit THEN Len(summary.s) ELSE DescLimit
    IN /\ (summary.t = "str" /\ Len(summary.s) > 0) =>
            /\ "description" \in DOMAIN value
            /\ value.description.t = "str"
            /\ Len(value.description.s) = n + 3
            /\ Len(value.description.s) <= DescLimit + 3
            /\ \A i \in 1..n : value.description.s[i] = summary.s[i]
            /\ \A i \in (n + 1)..(n + 3) : value.description.s[i] = Chr(".")
       /\ (summary.t = "None" \/ (summary.t = "str" /\ Len(summary.s) = 0)) =>
            /\ "description" \in DOMAIN value
            /\ value.description = Str(NA)

\* A summary shorter than 500 characters came back whole, with the ellipsis.
C6_Witness ==
  /\ op = "get_stock_info"
  /\ GotData(prov[1])
  /\ "longBusinessSummary" \in DOMAIN prov[1].fetch.v
  /\ prov[1].fetch.v["longBusinessSummary"].t = "str"
  /\ Len(prov[1].fetch.v["longBusinessSummary"].s) = DescLimit - 1
  /\ "description" \in DOMAIN value
  /\ Len(value.description.s) = DescLimit + 2


\* C7 as stated: for an unknown symbol (an empty one-day series, or a lookup
\* that throws) get_stock_price returns a dict whose only key is `error` and
\* whose message contains the requested symbol.
C7_ErrorNamesSymbol ==
  (op = "get_stock_price" /\ (Threw(prov[1]) \/ Empty(prov[1].fetch.v))) =>
    /\ outcome = "returned"
    /\ OnlyError(value)
    /\ Contains(value.error.s, args.symbol)

\* C7 as amended: in both cases the result is returned and its only key is
\* `error`; the message contains the symbol when the series is empty; when
\* the lookup throws it is the fixed text followed by the exception's own
\* text, and contains the symbol only if that text does.
C7_ErrorNamesSymbolWhenEmpty ==
  (op = "get_stock_price" /\ (Threw(prov[1]) \/ Empty(prov[1].fetch.v))) =>
    /\ outcome = "returned"
    /\ OnlyError(value)
    /\ GotData(prov[1]) => Contains(value.error.s, args.symbol)
    /\ ~prov[1].ticker.ok => value.error.s = FetchErr \o prov[1].ticker.e
    /\ (prov[1].ticker.ok /\ ~prov[1].fetch.ok) =>
         value.error.s = FetchErr \o prov[1].fetch.e
    /\ Threw(prov[1]) =>
         (Contains(value.error.s, args.symbol)
            <=> Contains(SubSeq(value.error.s, Len(FetchErr) + 1, Len(value.error.s)),
                         args.symbol))

\* The provider returned an empty series and the error names the symbol.
C7_Witness ==
  /\ op = "get_stock_price"
  /\ GotData(prov[1])
  /\ Empty(prov[1].fetch.v)
  /\ OnlyError(value)
  /\ Contains(value.error.s, args.symbol)

\* C8: get_stock_price_history never returns an empty sequence and never
\* mixes shapes: n rows that all convert give n elements, the i-th built
\* from the provider's i-th row, with the keys date, open, high, low, close
\* and volume only; an empty series, a throwing call or a row that does not
\* convert gives exactly one element whose only key is `error`.
C8_HistoryShape ==
  op = "get_stock_price_history" =>
    /\ outcome = "returned"
    /\ Len(value) >= 1
    /\ IF /\ GotData(prov[1])
          /\ ~Empty(prov[1].fetch.v)
          /\ \A i \in 1..Len(prov[1].fetch.v) : prov[1].fetch.v[i].Volume.t = "num"
       THEN LET data == prov[1].fetch.v
            IN /\ Len(value) = Len(data)
               /\ \A i \in 1..Len(data) :
                    /\ DOMAIN value[i] = RowKeys
                    /\ value[i].date = Str(StrfYmd(data[i].ts))
                    /\ value[i].open = Num(Round2(data[i].Open))
                    /\ value[i].high = Num(Round2(data[i].High))
                    /\ value[i].low = Num(Round2(data[i].Low))
                    /\ value[i].close = Num(Round2(data[i].Close))
                    /\ IsTruncation(value[i].volume, data[i].Volume.n)
       ELSE Len(value) = 1 /\ OnlyError(value[1])

\* A series of three rows that is not in ascending date order came back
\* with three elements.
C8_Witness ==
  /\ op = "get_stock_price_history"
  /\ GotData(prov[1])
  /\ Len(prov[1].fetch.v) = 3
  /\ prov[1].fetch.v[1].ts.month > prov[1].fetch.v[2].ts.month
  /\ Len(value) = 3
  /\ "date" \in DOMAIN value[3]

\* Once a provider call of the invocation has thrown, the invocation makes
\* no further provider call.
NoCallAfterFailure == \A j \in 1..(Len(calls) - 1) : calls[j].ok

\* Some provider call of the invocation has thrown.
SomeCallFailed == \E j \in 1..Len(calls) : ~calls[j].ok

\* C9 as stated: in every tool, a provider call that throws is the last
\* provider call of the invocation, and the invocation ends with the
\* failure as an error payload (a raised failure for the date tool).
C9_FailureEndsInvocation ==
  op # "none" =>
    /\ NoCallAfterFailure
    /\ SomeCallFailed =>
         CASE op = "get_current_date" -> outcome = "raised"
           [] op \in {"get_stock_price", "get_stock_info"} ->
                outcome = "returned" /\ OnlyError(value)
           [] op \in {"get_stock_price_history", "search_stocks"} ->
                outcome = "returned" /\ Len(value) = 1 /\ OnlyError(value[1])

\* C9 as amended: that holds of every tool but search_stocks.  In
\* search_stocks no lookup is retried either (each token occurrence gets one
\* Ticker call and at most one info call, in the order of the query), but
\* after a lookup that throws the later tokens are still looked up and the
\* result is the hits of the other tokens or the `message` payload, never
\* an `error`.
C9_NoRetry ==
  /\ op \in {"get_current_date", "get_stock_price", "get_stock_price_history",
             "get_stock_info"} =>
       /\ NoCallAfterFailure
       /\ Len(calls) <= 2
       /\ SomeCallFailed =>
            CASE op = "get_current_date" -> outcome = "raised"
              [] op \in {"get_stock_price", "get_stock_info"} ->
                   outcome = "returned" /\ OnlyError(value)
              [] op = "get_stock_price_history" ->
                   outcome = "returned" /\ Len(value) = 1 /\ OnlyError(value[1])
  /\ op = "search_stocks" =>
       LET tokens == Split(args.query)
       IN /\ Len(SelectSeq(calls, IsTickerCall)) = Len(tokens)
          /\ \A k \in 1..Len(tokens) :
               SelectSeq(calls, IsTickerCall)[k].arg = tokens[k]
          /\ \A j \in 1..Len(calls) :
               calls[j].fn = "info" =>
                 /\ j > 1
                 /\ calls[j - 1].fn = "Ticker"
                 /\ calls[j - 1].ok
                 /\ calls[j - 1].arg = calls[j].arg
          /\ \A j \in 1..(Len(calls) - 1) :
               ~calls[j].ok => calls[j + 1].fn = "Ticker"
          /\ \A k \in 1..Len(value) : "error" \notin DOMAIN value[k]

\* In a search of two tokens the lookup of the first threw, the second was
\* still looked up and is the hit returned.
C9_Witness ==
  /\ op = "search_stocks"
  /\ Len(prov) = 2
  /\ ~prov[1].ticker.ok
  /\ IsHit(prov[2])
  /\ Len(calls) = 3
  /\ ~calls[1].ok
  /\ Len(value) = 1
  /\ "symbol" \in DOMAIN value[1]

\* C10 as stated: whenever the one-day series is not empty, get_stock_price
\* returns exactly the keys symbol, date, open, high, low, close and volume,
\* with the symbol as passed and the date and the values of the last row.
C10_LatestRow ==
  (op = "get_stock_price" /\ GotData(prov[1]) /\ ~Empty(prov[1].fetch.v)) =>
    LET data == prov[1].fetch.v
        last == data[Len(data)]
    IN /\ outcome = "returned"
       /\ DOMAIN value = PriceKeys
       /\ value.symbol = Str(args.symbol)
       /\ value.date = Str(StrfYmd(last.ts))
       /\ value.open = Num(Round2(last.Open))
       /\ value.high = Num(Round2(last.High))
       /\ value.low = Num(Round2(last.Low))
       /\ value.close = Num(Round2(last.Close))
       /\ IsTruncation(value.volume, last.Volume.n)

\* C10 as amended: that holds whenever the series is not empty and the
\* volume of its last row is a number; when it is NaN the result is the
\* `error` payload (the other rows are never read).
C10_LatestRowConvertible ==
  (op = "get_stock_price" /\ GotData(prov[1]) /\ ~Empty(prov[1].fetch.v)) =>
    LET data == prov[1].fetch.v
        last == data[Len(data)]
    IN /\ outcome = "returned"
       /\ IF last.Volume.t = "num"
          THEN /\ DOMAIN value = PriceKeys
               /\ value.symbol = Str(args.symbol)
               /\ value.date = Str(StrfYmd(last.ts))
               /\ value.open = Num(Round2(last.Open))
               /\ value.high = Num(Round2(last.High))
               /\ value.low = Num(Round2(last.Low))
               /\ value.close = Num(Round2(last.Close))
               /\ IsTruncation(value.volume, last.Volume.n)
          ELSE OnlyError(value)

\* A series of three rows whose first row differs from its last and cannot
\* be converted gave the quote of the last row.
C10_Witness ==
  /\ op = "get_stock_price"
  /\ GotData(prov[1])
  /\ Len(prov[1].fetch.v) = 3
  /\ prov[1].fetch.v[1].Volume.t = "nan"
  /\ prov[1].fetch.v[3].Volume.t = "num"
  /\ DOMAIN value = PriceKeys
  /\ value.date = Str(StrfYmd(prov[1].fetch.v[3].ts))


====
